---- MODULE Spec2Model ----
(***************************************************************************)
(* A model of include/easy_iterator.h: the strategy functors, the Iterator *)
(* base class, CallbackIterator, RangeIterator, WrappedIterator and the    *)
(* compositions range, zip and enumerate.                                  *)
(*                                                                         *)
(* T = int is modelled as a signed integer of Bits bits; signed overflow,  *)
(* access to an empty std::optional and access through an iterator outside *)
(* its container are undefined behaviour and are modelled as a choice      *)
(* between the outcomes a build produces (carry on, or abort).             *)
(***************************************************************************)
EXTENDS Integers, Sequences, FiniteSets, TLC

VARIABLES
  cur,      \* CursorSpec: the Iterator objects under test, by address
  res,      \* CursorSpec: what the last operation returned
  call,     \* which composition built `wrapped`, and its arguments
  conts,    \* the caller's containers handed to zip / enumerate
  wrapped,  \* the WrappedIterator: beginIterator, endIterator
  round,    \* the traversal in progress (0: none yet)
  it,       \* it[t]: the cursor of traversal t, a copy obtained from begin()
  out,      \* out[t]: the values the loop body of traversal t received
  tpc,      \* tpc[t]: "none", "loop", "done" of traversal t
  past,     \* dereference attempts made after the loop of the current traversal
  overrun,  \* tuple positions dereferenced at or past their container's end
  ub,       \* undefined behaviour has been executed
  aborted   \* the process was terminated by a trap or an assertion

vars == <<cur, res, call, conts, wrapped, round, it, out, tpc, past, overrun, ub, aborted>>
cvars == <<cur, res>>
tvars == <<call, conts, wrapped, round, it, out, tpc, past, overrun>>

----------------------------------------------------------------------------
\* Bounds of the model.

\* width of T = int in bits
Bits == 3
\* largest |increment| passed to range() / RangeIterator
MaxStep == 2
\* longest container handed to zip / enumerate
MaxLen == 2
\* most sequences handed to one zip call
MaxArgs == 2
\* operator* calls made on a cursor after its loop has ended
MaxAttempts == 2
\* operator++ calls made on a cursor after its loop has ended
MaxBeyond == 1

IntMin == -(2^(Bits-1))
IntMax == 2^(Bits-1) - 1
IntT == IntMin..IntMax
Overflows(x) == x < IntMin \/ x > IntMax
WrapInt(x) == ((x - IntMin) % (2^Bits)) + IntMin
Abs(x) == IF x < 0 THEN -x ELSE x
\* a % b of C++: the remainder of the division truncated towards zero
CRem(a, b) == IF a < 0 THEN -(Abs(a) % Abs(b)) ELSE Abs(a) % Abs(b)

\* element values of the caller's containers
Values == {10, 20}
\* the caller's array that pointer-like handles index (IncrementPtrIterator)
Mem == <<10, 20>>

\* std::optional<T>
nullopt == <<>>
Some(v) == <<v>>
has_value(o) == Len(o) > 0
value(o) == o[1]

----------------------------------------------------------------------------
\* Cursor objects.  Every Iterator<T,D,C> (with its subclass state) is a
\* record: current, dereferencer D, compare C, advance (the override of
\* Iterator::advance) and increment (RangeIterator::increment, the A of
\* increment::ByValue<A>, or the state of a caller-written callback).

Iterator(first, D, C, F, inc) ==
  [current |-> first, dereferencer |-> D, compare |-> C, advance |-> F, increment |-> inc]

CallbackIterator(begin, F, inc, D, C) == Iterator(begin, D, C, F, inc)

RangeIterator(start, increment) == Iterator(Some(start), "ByValue", "ByValue", "RangeIterator", increment)

IncrementPtrIterator(p) == CallbackIterator(p, "ByValue", 1, "ByValueDereference", "ByValue")

\* Iterator::operator bool
IsLive(c) == has_value(c.current)

\* an iterator of one of the caller's containers (std::vector<T>::iterator)
IsVecIt(c) == "pos" \in DOMAIN c
vec_begin(i) == [container |-> i, pos |-> 1]
vec_end(i, s) == [container |-> i, pos |-> Len(s) + 1]

----------------------------------------------------------------------------
\* Comparison strategies and Iterator::operator==.  An object is named by
\* its address; element k of the tuple held by the object at address a is
\* at SubAddr(a, k).

SubAddr(a, k) == a * (MaxArgs + 2) + k

compare_ByValue(a, b) == a = b

compare_ByAddress(addrA, addrB) == addrA = addrB

compare_Never(a, b) == FALSE

RECURSIVE operator_eq_trace(_, _, _, _)

\* operator== of two tuple elements: of two container iterators, or of two
\* library cursors
SubEq(x, addrX, y, addrY) ==
  IF IsVecIt(x) THEN x.container = y.container /\ x.pos = y.pos
  ELSE operator_eq_trace(x, addrX, y, addrY).result

compare_ByFirstTupleElementMatch(a, addrA, b, addrB) ==
  SubEq(a[1], SubAddr(addrA, 1), b[1], SubAddr(addrB, 1))

compare_ByAnyTupleElementMatch(a, addrA, b, addrB) ==
  \E k \in 1..Len(a) : SubEq(a[k], SubAddr(addrA, k), b[k], SubAddr(addrB, k))

compare_ByLastTupleElementMatch(a, addrA, b, addrB) ==
  SubEq(a[Len(a)], SubAddr(addrA, Len(a)), b[Len(b)], SubAddr(addrB, Len(b)))

\* C()(a, b) for the comparison strategy C
compare(C, a, addrA, b, addrB) ==
  CASE C = "ByValue" -> compare_ByValue(a, b)
    [] C = "ByAddress" -> compare_ByAddress(addrA, addrB)
    [] C = "ByLastTupleElementMatch" -> compare_ByLastTupleElementMatch(a, addrA, b, addrB)
    [] C = "Never" -> compare_Never(a, b)

operator_eq_trace_exhaustedUnequal(this, addrThis, other, addrOther) ==
  IF ~IsLive(this) \/ ~IsLive(other) THEN [result |-> FALSE, compared |-> FALSE]
  ELSE [result |-> compare(this.compare, value(this.current), addrThis,
                           value(other.current), addrOther),
        compared |-> TRUE]

\* Iterator::operator==, with whether it called the comparison strategy
operator_eq_trace(this, addrThis, other, addrOther) ==
  IF ~IsLive(this) THEN [result |-> ~IsLive(other), compared |-> FALSE]
  ELSE IF ~IsLive(other) THEN [result |-> FALSE, compared |-> FALSE]
  ELSE [result |-> compare(this.compare, value(this.current), addrThis,
                           value(other.current), addrOther),
        compared |-> TRUE]

operator_eq(this, addrThis, other, addrOther) ==
  operator_eq_trace(this, addrThis, other, addrOther).result

\* Iterator::operator!=
operator_neq(this, addrThis, other, addrOther) ==
  ~operator_eq(this, addrThis, other, addrOther)

----------------------------------------------------------------------------
\* Dereference strategies and Iterator::operator*.  An outcome says whether
\* UndefinedIteratorException was thrown, whether undefined behaviour was
\* executed, whether the process was aborted, the value returned, and the
\* held value afterwards (current is mutable and is passed as T &).

Returned(v, h) == [threw |-> FALSE, ub |-> FALSE, abort |-> FALSE, value |-> Some(v), held |-> h]

UndefinedIteratorException(h) ==
  [threw |-> TRUE, ub |-> FALSE, abort |-> FALSE, value |-> nullopt, held |-> h]

\* a read outside the object: some value, or a fault
WildRead(h) ==
  {[threw |-> FALSE, ub |-> TRUE, abort |-> FALSE, value |-> Some(g), held |-> h] : g \in Values}
  \cup {[threw |-> FALSE, ub |-> TRUE, abort |-> TRUE, value |-> nullopt, held |-> h]}

dereference_ByValue(v) == {Returned(v, Some(v))}

dereference_ByValueDereference(v) ==
  IF v \in DOMAIN Mem THEN {Returned(Mem[v], Some(v))} ELSE WildRead(Some(v))

RECURSIVE operator_deref(_, _)

\* *x of one tuple element
SubDeref(x, cs) ==
  IF IsVecIt(x)
  THEN IF x.pos \in 1..Len(cs[x.container])
       THEN {Returned(cs[x.container][x.pos], nullopt)}
       ELSE WildRead(nullopt)
  ELSE operator_deref(x, cs)

\* the outcome of dereferencing one more element after the outcome p
JoinDeref(p, e, h) ==
  [threw |-> p.threw \/ e.threw, ub |-> p.ub \/ e.ub, abort |-> p.abort \/ e.abort,
   value |-> IF p.threw \/ e.threw \/ p.abort \/ e.abort THEN nullopt
             ELSE Some(Append(value(p.value), value(e.value))),
   held |-> h]

RECURSIVE getReferenceTuple(_, _, _)

\* ByTupleDereference::getReferenceTuple over the first k elements of v
getReferenceTuple(v, k, cs) ==
  IF k = 0 THEN {Returned(<<>>, Some(v))}
  ELSE {JoinDeref(p, e, Some(v)) : p \in getReferenceTuple(v, k - 1, cs), e \in SubDeref(v[k], cs)}

dereference_ByTupleDereference(v, cs) == getReferenceTuple(v, Len(v), cs)

\* D()(v) for the dereference strategy D
dereferencer(D, v, cs) ==
  CASE D = "ByValue" -> dereference_ByValue(v)
    [] D = "ByValueDereference" -> dereference_ByValueDereference(v)
    [] D = "ByTupleDereference" -> dereference_ByTupleDereference(v, cs)

operator_deref_unchecked(this, cs) ==
  IF ~IsLive(this) THEN {Returned(0, this.current)}
  ELSE dereferencer(this.dereferencer, value(this.current), cs)

\* Iterator::operator*
operator_deref(this, cs) ==
  IF ~IsLive(this) THEN {UndefinedIteratorException(this.current)}
  ELSE dereferencer(this.dereferencer, value(this.current), cs)

\* the positions of the tuple v whose container iterator is at or past the end
AtOrPastEnd(v, cs) ==
  {k \in 1..Len(v) : IsVecIt(v[k]) /\ v[k].pos > Len(cs[v[k].container])}

----------------------------------------------------------------------------
\* Increment strategies and Iterator::operator++.  An outcome is the cursor
\* afterwards, whether undefined behaviour was executed and whether the
\* process was aborted.

Advanced(c, v, u) == [cursor |-> [c EXCEPT !.current = v], ub |-> u, abort |-> FALSE]

Trapped(c) == [cursor |-> c, ub |-> TRUE, abort |-> TRUE]

\* *v = *v + d on the std::optional<int> held by c.  operator* of an empty
\* optional is undefined: the write goes to the disengaged storage (the
\* optional stays empty), or a checked standard library aborts.  Signed
\* overflow is undefined: the sum wraps, or the addition traps.
AddToHeld(c, d) ==
  IF ~IsLive(c) THEN {Advanced(c, nullopt, TRUE), Trapped(c)}
  ELSE IF Overflows(value(c.current) + d)
       THEN {Advanced(c, Some(WrapInt(value(c.current) + d)), TRUE), Trapped(c)}
       ELSE {Advanced(c, Some(value(c.current) + d), FALSE)}

\* increment::ByValue<A>::operator()
increment_ByValue(c) == AddToHeld(c, c.increment)

RangeIterator_advance_resetting(c) == {Advanced(c, nullopt, FALSE)}

\* RangeIterator::advance
RangeIterator_advance(c) == AddToHeld(c, c.increment)

\* A callback written by the caller, in the way Iterator::advance documents
\* ("the value may be reset to determine the end of iteration"):
\*   if (!v) return;  if (*v >= limit) v.reset(); else ++*v;
callback_ResetAt(c) ==
  IF ~IsLive(c) THEN {Advanced(c, nullopt, FALSE)}
  ELSE IF value(c.current) >= c.increment THEN {Advanced(c, nullopt, FALSE)}
  ELSE {Advanced(c, Some(value(c.current) + 1), FALSE)}

RECURSIVE operator_inc(_, _)

\* ++x of one tuple element; incrementing a container iterator that is at
\* or past the end is undefined (it moves on, or a checked iterator aborts)
SubInc(x, cs) ==
  IF IsVecIt(x)
  THEN IF x.pos \in 1..Len(cs[x.container])
       THEN {[cursor |-> [x EXCEPT !.pos = @ + 1], ub |-> FALSE, abort |-> FALSE]}
       ELSE {[cursor |-> [x EXCEPT !.pos = @ + 1], ub |-> TRUE, abort |-> FALSE],
             [cursor |-> x, ub |-> TRUE, abort |-> TRUE]}
  ELSE operator_inc(x, cs)

RECURSIVE IncrementTuple(_, _, _)

\* dummy(++std::get<Idx>(v)...) over the first k elements of the tuple v:
\* the tuples that can result, each with its ub and abort flags
IncrementTuple(v, k, cs) ==
  IF k = 0 THEN {[tuple |-> <<>>, ub |-> FALSE, abort |-> FALSE]}
  ELSE {[tuple |-> Append(p.tuple, e.cursor), ub |-> p.ub \/ e.ub, abort |-> p.abort \/ e.abort] :
          p \in IncrementTuple(v, k - 1, cs), e \in SubInc(v[k], cs)}

\* increment::ByTupleIncrement::operator()
increment_ByTupleIncrement(c, cs) ==
  IF ~IsLive(c) THEN {Advanced(c, nullopt, TRUE), Trapped(c)}
  ELSE {IF r.abort THEN Trapped(c) ELSE Advanced(c, Some(r.tuple), r.ub) :
          r \in IncrementTuple(value(c.current), Len(value(c.current)), cs)}

\* Iterator::advance, as overridden (RangeIterator) or as delegated to the
\* callback F (CallbackIterator::advance)
advance(c, cs) ==
  CASE c.advance = "RangeIterator" -> RangeIterator_advance(c)
    [] c.advance = "ByValue" -> increment_ByValue(c)
    [] c.advance = "ByTupleIncrement" -> increment_ByTupleIncrement(c, cs)
    [] c.advance = "ResetAt" -> callback_ResetAt(c)

\* Iterator::operator++
operator_inc(this, cs) == advance(this, cs)

----------------------------------------------------------------------------
\* CursorSpec: two cursors of one type, built by the constructors, and the
\* operations of the Iterator interface applied to them in any order.

Cursors == {1, 2}

Steps == (-MaxStep..MaxStep) \ {0}

Held == {nullopt} \cup {Some(v) : v \in IntT}

\* the template arguments (and constructor arguments other than the held
\* value) of the cursor types: RangeIterator<int>, and CallbackIterator<int,
\* F, D, C> with F increment::ByValue<1> or the caller's callback
CursorTypes ==
  {Iterator(nullopt, "ByValue", "ByValue", "RangeIterator", s) : s \in Steps}
  \cup {CallbackIterator(nullopt, "ByValue", 1, D, C) :
          D \in {"ByValue", "ByValueDereference"}, C \in {"ByValue", "ByAddress", "Never"}}
  \cup {CallbackIterator(nullopt, "ResetAt", l, D, C) :
          l \in {0, IntMax}, D \in {"ByValue", "ByValueDereference"},
          C \in {"ByValue", "ByAddress", "Never"}}

NoResult ==
  [op |-> "none", a |-> 1, b |-> 1, before |-> nullopt, threw |-> FALSE, value |-> nullopt,
   eq |-> FALSE, neq |-> FALSE, compared |-> FALSE, ub |-> FALSE, abort |-> FALSE]

NoCall == [fn |-> "none", begin |-> 0, end |-> 0, increment |-> 0]

NoWrapped == [beginIterator |-> nullopt, endIterator |-> nullopt]

NoPast == [derefs |-> <<>>, beyond |-> 0]

Traversals == {1, 2}

\* no composition has been called and no traversal started
Idle ==
  /\ call = NoCall
  /\ conts = <<>>
  /\ wrapped = NoWrapped
  /\ round = 0
  /\ it = [t \in Traversals |-> nullopt]
  /\ out = [t \in Traversals |-> <<>>]
  /\ tpc = [t \in Traversals |-> "none"]
  /\ past = NoPast
  /\ overrun = [t \in Traversals |-> {}]

\* Iterator(first, dereferencer, compare): a RangeIterator is always built
\* from a start value, a CallbackIterator may be built with no value
InitCursor ==
  /\ \E k \in CursorTypes, h \in [Cursors -> Held] :
       /\ k.advance = "RangeIterator" => \A i \in Cursors : has_value(h[i])
       /\ cur = [i \in Cursors |-> [k EXCEPT !.current = h[i]]]
  /\ res = NoResult
  /\ ub = FALSE
  /\ aborted = FALSE
  /\ Idle

\* v = *cur[i]
Deref(i) ==
  /\ ~aborted
  /\ \E o \in operator_deref(cur[i], <<>>) :
       /\ cur' = [cur EXCEPT ![i].current = o.held]
       /\ res' = [NoResult EXCEPT !.op = "deref", !.a = i, !.b = i, !.before = cur[i].current,
                                  !.threw = o.threw, !.value = o.value,
                                  !.ub = o.ub, !.abort = o.abort]
       /\ ub' = (ub \/ o.ub)
       /\ aborted' = o.abort
  /\ UNCHANGED tvars

\* cur[i] == cur[j] and cur[i] != cur[j]
Equals(i, j) ==
  /\ ~aborted
  /\ res' = [NoResult EXCEPT !.op = "eq", !.a = i, !.b = j, !.before = cur[i].current,
                             !.eq = operator_eq(cur[i], i, cur[j], j),
                             !.neq = operator_neq(cur[i], i, cur[j], j),
                             !.compared = operator_eq_trace(cur[i], i, cur[j], j).compared]
  /\ UNCHANGED <<cur, ub, aborted>>
  /\ UNCHANGED tvars

\* ++cur[i]
Advance(i) ==
  /\ ~aborted
  /\ \E o \in operator_inc(cur[i], <<>>) :
       /\ cur' = [cur EXCEPT ![i] = o.cursor]
       /\ res' = [NoResult EXCEPT !.op = "advance", !.a = i, !.b = i, !.before = cur[i].current,
                                  !.ub = o.ub, !.abort = o.abort]
       /\ ub' = (ub \/ o.ub)
       /\ aborted' = o.abort
  /\ UNCHANGED tvars

NextCursor ==
  \/ \E i \in Cursors : Deref(i)
  \/ \E i, j \in Cursors : Equals(i, j)
  \/ \E i \in Cursors : Advance(i)

CursorSpec == InitCursor /\ [][NextCursor]_vars

----------------------------------------------------------------------------
\* WrappedIterator and the compositions.

WrappedIterator(b, e) == [beginIterator |-> b, endIterator |-> e]

wrap(a, b) == WrappedIterator(a, b)

begin_aliasing_end(w) == w.endIterator

\* WrappedIterator::begin
begin(w) == w.beginIterator

\* WrappedIterator::end
end(w) == w.endIterator

\* a - b in int: the difference, or on signed overflow the wrapped
\* difference or a trap
SubInt(a, b) ==
  IF Overflows(a - b)
  THEN {[v |-> WrapInt(a - b), ub |-> TRUE, abort |-> FALSE], [v |-> 0, ub |-> TRUE, abort |-> TRUE]}
  ELSE {[v |-> a - b, ub |-> FALSE, abort |-> FALSE]}

\* a % b in int, b nonzero; INT_MIN % -1 is undefined (0, or a trap)
RemInt(a, b) ==
  IF a = IntMin /\ b = -1
  THEN {[v |-> 0, ub |-> TRUE, abort |-> FALSE], [v |-> 0, ub |-> TRUE, abort |-> TRUE]}
  ELSE {[v |-> CRem(a, b), ub |-> FALSE, abort |-> FALSE]}

\* end - ((end - begin) % increment)
actualEnd(b, e, inc) ==
  UNION {UNION {{[v |-> a.v, ub |-> d.ub \/ r.ub \/ a.ub, abort |-> d.abort \/ r.abort \/ a.abort] :
                   a \in SubInt(e, r.v)} : r \in RemInt(d.v, inc)} : d \in SubInt(e, b)}

\* range(begin, end, increment): the WrappedIterator returned, with the
\* flags of the arithmetic that computed actualEnd
range(b, e, inc) ==
  {[wrapped |-> wrap(RangeIterator(b, inc), RangeIterator(a.v, inc)), ub |-> a.ub, abort |-> a.abort] :
     a \in actualEnd(b, e, inc)}

\* range(begin, end)
range2(b, e) == range(b, e, 1)

\* range(end)
range1(e) == range2(0, e)

\* a container of the caller as zip sees it: its begin() and end()
Container(i, s) == WrappedIterator(vec_begin(i), vec_end(i, s))

\* zip(args...)
zip(args) ==
  wrap(CallbackIterator(Some([k \in 1..Len(args) |-> begin(args[k])]),
                        "ByTupleIncrement", 0, "ByTupleDereference", "ByLastTupleElementMatch"),
       CallbackIterator(Some([k \in 1..Len(args) |-> end(args[k])]),
                        "ByTupleIncrement", 0, "ByTupleDereference", "ByLastTupleElementMatch"))

enumerate_fromOne(t) == zip(<<wrap(RangeIterator(1, 1), RangeIterator(1, 1)), t>>)

\* enumerate(t)
enumerate(t) == zip(<<wrap(RangeIterator(0, 1), RangeIterator(0, 1)), t>>)

----------------------------------------------------------------------------
\* Spec: one composition is called, and the WrappedIterator it returns is
\* traversed as a range-based for loop does, once or twice; after the
\* last loop has ended its cursor may be dereferenced and advanced further.
\* A run that has executed undefined behaviour is followed to the end of
\* the loop it is in, and no further.

Seqs == UNION {[1..n -> Values] : n \in 0..MaxLen}

NoCursors == [i \in Cursors |-> Iterator(nullopt, "ByValue", "ByValue", "ByValue", 1)]

Init ==
  /\ cur = NoCursors
  /\ res = NoResult
  /\ ub = FALSE
  /\ aborted = FALSE
  /\ Idle

\* the WrappedIterator w was returned (or the call aborted)
Built(c, o) ==
  /\ call' = c
  /\ wrapped' = IF o.abort THEN NoWrapped ELSE o.wrapped
  /\ ub' = o.ub
  /\ aborted' = o.abort
  /\ UNCHANGED <<cur, res, round, it, out, tpc, past, overrun>>

\* auto r = range(b, e, s)
Range3 ==
  /\ call = NoCall /\ ~aborted
  /\ \E b \in IntT, e \in IntT, s \in Steps : \E o \in range(b, e, s) :
       Built([fn |-> "range", begin |-> b, end |-> e, increment |-> s], o)
  /\ UNCHANGED conts

\* auto r = range(b, e)
Range2 ==
  /\ call = NoCall /\ ~aborted
  /\ \E b \in IntT, e \in IntT : \E o \in range2(b, e) :
       Built([fn |-> "range", begin |-> b, end |-> e, increment |-> 1], o)
  /\ UNCHANGED conts

\* auto r = range(e)
Range1 ==
  /\ call = NoCall /\ ~aborted
  /\ \E e \in IntT : \E o \in range1(e) :
       Built([fn |-> "range", begin |-> 0, end |-> e, increment |-> 1], o)
  /\ UNCHANGED conts

\* auto r = wrap(CallbackIterator(start, ResetAt{limit}), CallbackIterator())
WrapCallback ==
  /\ call = NoCall /\ ~aborted
  /\ \E start \in IntT, limit \in IntT :
       Built([fn |-> "wrap", begin |-> start, end |-> limit, increment |-> 1],
             [wrapped |-> wrap(CallbackIterator(Some(start), "ResetAt", limit, "ByValue", "ByValue"),
                               CallbackIterator(nullopt, "ResetAt", limit, "ByValue", "ByValue")),
              ub |-> FALSE, abort |-> FALSE])
  /\ UNCHANGED conts

\* auto r = zip(c1, ..., cn)
Zip ==
  /\ call = NoCall /\ ~aborted
  /\ \E n \in 1..MaxArgs : \E cs \in [1..n -> Seqs] :
       /\ conts' = cs
       /\ Built([fn |-> "zip", begin |-> 0, end |-> 0, increment |-> 0],
                [wrapped |-> zip([k \in 1..n |-> Container(k, cs[k])]), ub |-> FALSE, abort |-> FALSE])

\* auto r = enumerate(c)
Enumerate ==
  /\ call = NoCall /\ ~aborted
  /\ \E c \in Seqs :
       /\ conts' = <<c>>
       /\ Built([fn |-> "enumerate", begin |-> 0, end |-> 0, increment |-> 1],
                [wrapped |-> enumerate(Container(1, c)), ub |-> FALSE, abort |-> FALSE])

\* auto it = r.begin()
Begin ==
  /\ ~aborted /\ ~ub /\ call # NoCall /\ round + 1 \in Traversals
  /\ round > 0 => tpc[round] = "done" /\ past = NoPast
  /\ round' = round + 1
  /\ it' = [it EXCEPT ![round + 1] = begin(wrapped)]
  /\ tpc' = [tpc EXCEPT ![round + 1] = "loop"]
  /\ UNCHANGED <<cur, res, call, conts, wrapped, out, past, overrun, ub, aborted>>

\* the tuple positions a dereference of c reads at or past the end
Overruns(c) ==
  IF IsLive(c) /\ c.dereferencer = "ByTupleDereference"
  THEN AtOrPastEnd(value(c.current), conts) ELSE {}

\* it != r.end() held: v = *it; body(v); ++it
Iterate ==
  /\ ~aborted /\ round > 0 /\ tpc[round] = "loop"
  /\ operator_neq(it[round], round, end(wrapped), 0)
  /\ \E d \in operator_deref(it[round], conts) :
       \E a \in operator_inc([it[round] EXCEPT !.current = d.held], conts) :
         LET left == d.abort \/ d.threw
         IN /\ it' = [it EXCEPT ![round] = IF left THEN [@ EXCEPT !.current = d.held] ELSE a.cursor]
            /\ out' = [out EXCEPT ![round] = IF left THEN @ ELSE Append(@, value(d.value))]
            /\ tpc' = [tpc EXCEPT ![round] = IF d.threw THEN "threw" ELSE @]
            /\ ub' = (ub \/ d.ub \/ (~left /\ a.ub))
            /\ aborted' = (d.abort \/ (~left /\ a.abort))
  /\ overrun' = [overrun EXCEPT ![round] = @ \cup Overruns(it[round])]
  /\ UNCHANGED <<cur, res, call, conts, wrapped, round, past>>

\* it != r.end() failed: the loop ends
Finish ==
  /\ ~aborted /\ round > 0 /\ tpc[round] = "loop"
  /\ operator_eq(it[round], round, end(wrapped), 0)
  /\ tpc' = [tpc EXCEPT ![round] = "done"]
  /\ UNCHANGED <<cur, res, call, conts, wrapped, round, it, out, past, overrun, ub, aborted>>

\* after the loop: try { v = *it; } catch (UndefinedIteratorException &) { }
DerefPast ==
  /\ ~aborted /\ ~ub /\ round > 0 /\ tpc[round] = "done"
  /\ Len(past.derefs) < MaxAttempts
  /\ \E d \in operator_deref(it[round], conts) :
       /\ it' = [it EXCEPT ![round].current = d.held]
       /\ past' = [past EXCEPT !.derefs = Append(@, [threw |-> d.threw, value |-> d.value,
                                                     held |-> it[round].current, ub |-> d.ub])]
       /\ ub' = (ub \/ d.ub)
       /\ aborted' = d.abort
  /\ UNCHANGED <<cur, res, call, conts, wrapped, round, out, tpc, overrun>>

\* after the loop: ++it
AdvancePast ==
  /\ ~aborted /\ ~ub /\ round > 0 /\ tpc[round] = "done"
  /\ past.beyond < MaxBeyond
  /\ \E a \in operator_inc(it[round], conts) :
       /\ it' = [it EXCEPT ![round] = a.cursor]
       /\ ub' = (ub \/ a.ub)
       /\ aborted' = a.abort
  /\ past' = [past EXCEPT !.beyond = @ + 1]
  /\ UNCHANGED <<cur, res, call, conts, wrapped, round, out, tpc, overrun>>

Next ==
  \/ Range3
  \/ Range2
  \/ Range1
  \/ WrapCallback
  \/ Zip
  \/ Enumerate
  \/ Begin
  \/ Iterate
  \/ Finish
  \/ DerefPast
  \/ AdvancePast

Spec == Init /\ [][Next]_vars

\* a for loop that is running keeps running: its test and its body are
\* executed until the test fails or the process is aborted
FairSpec == Spec /\ WF_vars(Iterate) /\ WF_vars(Finish)

----------------------------------------------------------------------------
\* The claims.

\* ceil(a / b) for a >= 0, b > 0
CeilDiv(a, b) == (a + b - 1) \div b

\* the number of sequences zipped
NArgs == Len(conts)

\* C1 (as stated): for begin <= end and a positive step, a traversal of
\* range(begin, end, step) yields exactly ceil((end - begin) / step) values,
\* the first begin, each next one step more, and never end itself.
C1_RangeYieldsCeil ==
  \A t \in Traversals :
    (call.fn = "range" /\ call.begin <= call.end /\ call.increment > 0 /\ ~ub /\ tpc[t] = "done")
    => /\ Len(out[t]) = CeilDiv(call.end - call.begin, call.increment)
       /\ \A k \in 1..Len(out[t]) : out[t][k] = call.begin + (k - 1) * call.increment
       /\ \A k \in 1..Len(out[t]) : out[t][k] # call.end

\* C2 (as stated): for every begin, end and nonzero step the traversal of
\* range(begin, end, step) terminates: a loop that has started reaches the
\* state where its cursor equals end().
C2_RangeTerminates ==
  \A t \in Traversals :
    (call.fn = "range" /\ ~ub /\ tpc[t] = "loop") ~> (tpc[t] = "done")

\* C3 (as stated): every dereference of a cursor that was advanced until it
\* equals end(), or beyond, raises UndefinedIteratorException.
C3_PastEndAlwaysRaises ==
  \A k \in 1..Len(past.derefs) : past.derefs[k].threw

\* C3 (amended): a dereference of a cursor advanced until it equals end(),
\* or beyond, raises exactly when the held value is absent, on every
\* attempt; the cursor of a range() holds a value there (the adjusted end
\* plus the further steps), and dereferencing it returns that value.
C3_PastEndRaisesIffAbsent ==
  \A k \in 1..Len(past.derefs) :
    LET d == past.derefs[k]
    IN /\ d.threw <=> ~has_value(d.held)
       /\ d.threw => d.value = nullopt
       /\ call.fn = "range" =>
            /\ ~d.threw /\ d.value = d.held
            /\ ~ub => \E j \in 0..MaxBeyond :
                        value(d.held) = value(wrapped.endIterator.current) + j * call.increment

C3_Witness ==
  /\ call.fn = "wrap"
  /\ Len(past.derefs) >= 2
  /\ past.derefs[1].threw /\ past.derefs[2].threw
  /\ Len(out[round]) >= 2

\* C4: operator* on a cursor whose held value is absent returns no value,
\* raises UndefinedIteratorException and leaves the cursor as it was; on a
\* live cursor it does not raise, leaves the held value as it was and returns
\* the dereference strategy's projection of the held value.
C4_Dereference ==
  res.op = "deref" =>
    /\ cur[res.a].current = res.before
    /\ ~has_value(res.before) => res.threw /\ res.value = nullopt /\ ~res.ub
    /\ has_value(res.before) =>
         /\ ~res.threw
         /\ cur[res.a].dereferencer = "ByValue" => res.value = res.before
         /\ (cur[res.a].dereferencer = "ByValueDereference" /\ ~res.ub) =>
              res.value = Some(Mem[value(res.before)])

C4_Witness ==
  /\ res.op = "deref"
  /\ res.threw
  /\ ~IsLive(cur[res.a])
  /\ IsLive(cur[3 - res.a])

\* C5: a == b is true when both are exhausted, false when exactly one is,
\* and otherwise what the comparison strategy says of the two held values;
\* the strategy is called only when both hold a value, and a != b is the
\* negation of a == b.
C5_Equality ==
  res.op = "eq" =>
    LET a == cur[res.a]
        b == cur[res.b]
    IN /\ (~IsLive(a) /\ ~IsLive(b)) => res.eq
       /\ (IsLive(a) # IsLive(b)) => ~res.eq
       /\ (IsLive(a) /\ IsLive(b)) =>
            res.eq = CASE a.compare = "ByValue" -> value(a.current) = value(b.current)
                       [] a.compare = "ByAddress" -> res.a = res.b
                       [] a.compare = "Never" -> FALSE
       /\ res.compared <=> (IsLive(a) /\ IsLive(b))
       /\ res.neq = ~res.eq

C5_Witness ==
  /\ res.op = "eq"
  /\ res.a # res.b
  /\ ~IsLive(cur[res.a]) /\ ~IsLive(cur[res.b])
  /\ res.eq /\ ~res.compared

\* C6: when every earlier sequence is at least as long as the last one, a
\* traversal of zip(S1, ..., Sn) yields exactly |Sn| tuples, the k-th being
\* (S1[k], ..., Sn[k]), and ends with the last sub-cursor at Sn's end.
C6_ZipYields ==
  \A t \in Traversals :
    (/\ call.fn = "zip" /\ tpc[t] = "done"
     /\ \A i \in 1..NArgs : Len(conts[i]) >= Len(conts[NArgs]))
    => /\ Len(out[t]) = Len(conts[NArgs])
       /\ \A k \in 1..Len(out[t]) : out[t][k] = [i \in 1..NArgs |-> conts[i][k]]
       /\ (t = round /\ past.beyond = 0) =>
            value(it[t].current)[NArgs].pos = Len(conts[NArgs]) + 1

C6_Witness ==
  /\ call.fn = "zip" /\ tpc[1] = "done"
  /\ NArgs = 2
  /\ Len(conts[1]) > Len(conts[2])
  /\ Len(out[1]) = 1
  /\ out[1][1][1] # out[1][1][2]

\* C7: a traversal of enumerate(s) yields exactly |s| pairs, the k-th
\* (from 0) being [k, s[k]]; the index starts at 0, is the number of pairs
\* yielded so far, and does not end the loop.
C7_EnumerateYields ==
  \A t \in Traversals :
    call.fn = "enumerate" =>
      /\ tpc[t] = "loop" => value(it[t].current)[1].current = Some(Len(out[t]))
      /\ tpc[t] = "loop" => Len(out[t]) <= Len(conts[1])
      /\ tpc[t] = "done" =>
           /\ Len(out[t]) = Len(conts[1])
           /\ \A k \in 1..Len(out[t]) : out[t][k] = <<k - 1, conts[1][k]>>

C7_Witness ==
  /\ call.fn = "enumerate" /\ tpc[1] = "done"
  /\ Len(out[1]) >= 2
  /\ out[1][2][1] = 1

\* C8 (as stated): operator++ on a cursor that holds no value is well
\* defined and leaves it exhausted.
C8_AdvanceExhaustedWellDefined ==
  (res.op = "advance" /\ ~has_value(res.before))
  => ~res.ub /\ ~res.abort /\ ~IsLive(cur[res.a])

\* C9: begin() returns a copy of the stored begin cursor; no step changes
\* the stored begin and end cursors or the cursor of another traversal, and
\* two traversals from begin() yield the same sequence.
C9_CopiesAreIndependent ==
  /\ [][/\ call # NoCall => wrapped' = wrapped
        /\ \A t \in Traversals : t # round' => it'[t] = it[t]
        /\ round' # round => round' = round + 1 /\ it'[round'] = wrapped.beginIterator]_vars
  /\ [](\A t, u \in Traversals : (tpc[t] = "done" /\ tpc[u] = "done" /\ ~ub) => out[t] = out[u])

C9_Witness ==
  /\ call.fn = "range"
  /\ round = 2 /\ tpc[2] = "done"
  /\ Len(out[2]) >= 2
  /\ past.beyond = 1
  /\ it[1] # it[2]
  /\ it[1] # wrapped.beginIterator

\* C10: zip does not guard the earlier sequences: the loop goes on while
\* the last sub-cursor is short of its end, every sub-cursor is advanced as
\* far as the last one, and an earlier sequence shorter than the number of
\* tuples yielded was dereferenced at or past its own end; so when a traversal
\* has run to its end, every earlier sequence shorter than the last one was.
C10_ZipOverrunsShorter ==
  \A t \in Traversals :
    (call.fn = "zip" /\ tpc[t] # "none") =>
      LET tuple == value(it[t].current)
      IN \A i \in 1..NArgs :
           /\ tuple[i].pos = tuple[NArgs].pos
           /\ Len(out[t]) > Len(conts[i]) => i \in overrun[t] /\ ub
           /\ (tpc[t] = "done" /\ Len(conts[i]) < Len(conts[NArgs])) => i \in overrun[t] /\ ub
           /\ (tpc[t] = "loop" /\ ~aborted /\ tuple[NArgs].pos <= Len(conts[NArgs])) => ENABLED Iterate

C10_Witness ==
  /\ call.fn = "zip" /\ tpc[1] = "done"
  /\ NArgs = 2
  /\ Len(conts[1]) = 0 /\ Len(conts[2]) = 2
  /\ 1 \in overrun[1]
  /\ Len(out[1]) = 2

====
